---- MODULE Spec2Model ----
(***************************************************************************)
(* A model of the websocket chat session of src/main.py: one connection   *)
(* served by websocket_endpoint, the agent run it starts for every chat   *)
(* frame, the tool-call hook process_tool_call and the progress tool      *)
(* send_progress_update.                                                   *)
(*                                                                         *)
(* The handler is split at its await points (receive_text, send_text,     *)
(* agent.run): between two of them the client may disconnect.  The agent  *)
(* runtime and the language model are external: every step of a run is a  *)
(* nondeterministic choice among the things the model may ask for.        *)
(***************************************************************************)
EXTENDS Integers, Sequences, FiniteSets, TLC

\* ------------------------------------------------------------------ bounds

\* Inbound frames the client sends on one connection.
MaxFrames == 3
\* Remote tool calls the model requests within one run, in the bounded
\* specification Spec (SpecLoop leaves the number open).
MaxTurnCalls == 1
\* Progress updates the model requests within one run.
MaxProgress == 1

\* ------------------------------------------------------- program constants

\* The slice bound of line 293: json.dumps(...)[:4000].
SnapshotLimit == 4000

\* The per-session tool-call ceiling of spec.md section 4.1 (default 45).
\* src/main.py defines no such number.
ToolCallCeiling == 45

\* settings.beefree_uid, fixed when the process starts.
beefree_uid == "user_1a2b3c4d"

None == "None"

Min(a, b) == IF a <= b THEN a ELSE b

\* ----------------------------------------------------------------- strings
\* A text is a sequence of runs [c |-> character, n |-> repetitions], n >= 1,
\* so that a text of several thousand characters stays small.

Run(c, n) == [c |-> c, n |-> n]

RECURSIVE StrLen(_)
StrLen(s) == IF s = << >> THEN 0 ELSE Head(s).n + StrLen(Tail(s))

\* s[:k]
RECURSIVE StrTake(_, _)
StrTake(s, k) ==
    IF s = << >> \/ k <= 0 THEN << >>
    ELSE IF Head(s).n <= k
         THEN << Head(s) >> \o StrTake(Tail(s), k - Head(s).n)
         ELSE << Run(Head(s).c, k) >>

\* s + t, joining the runs that meet
StrCat(s, t) ==
    IF s = << >> THEN t
    ELSE IF t = << >> THEN s
    ELSE IF s[Len(s)].c = t[1].c
         THEN SubSeq(s, 1, Len(s) - 1)
              \o << Run(t[1].c, s[Len(s)].n + t[1].n) >>
              \o Tail(t)
         ELSE s \o t

\* the text of a sequence of characters
RECURSIVE Text(_)
Text(cs) == IF cs = << >> THEN << >>
            ELSE StrCat(<< Run(Head(cs), 1) >>, Text(Tail(cs)))

\* s is t[:k] for some k
IsPrefix(s, t) == StrTake(t, StrLen(s)) = s

\* ------------------------------------------------------------- JSON values
\* The values json.loads can hand to the editor_state branch, as records
\* [t, n]: null, the integer n, the string of n letters a, the object
\* {"x": n} and the empty object.

JNull == [t |-> "null", n |-> 0]
JInt(n) == [t |-> "int", n |-> n]
JStr(n) == [t |-> "str", n |-> n]
JObjX(n) == [t |-> "obj_x", n |-> n]
JEmptyObj == [t |-> "obj_empty", n |-> 0]
\* a frame without the key "content"
NoContent == [t |-> "absent", n |-> 0]

Digit(n) == << "0", "1", "2", "3", "4", "5", "6", "7", "8", "9" >>[n + 1]

\* json.dumps with its default separators (", " and ": ").  ok is FALSE where
\* json.dumps raises TypeError, which it does for no value json.loads returns.
json_dumps(v) ==
    CASE v.t = "null" -> [ok |-> TRUE, text |-> Text(<< "n", "u", "l", "l" >>)]
      [] v.t = "int" -> [ok |-> TRUE, text |-> Text(<< Digit(v.n) >>)]
      [] v.t = "str" ->
            [ok |-> TRUE,
             text |-> IF v.n = 0 THEN << Run("\"", 2) >>
                      ELSE << Run("\"", 1), Run("a", v.n), Run("\"", 1) >>]
      [] v.t = "obj_x" ->
            [ok |-> TRUE,
             text |-> Text(<< "{", "\"", "x", "\"", ":", " ", Digit(v.n), "}" >>)]
      [] v.t = "obj_empty" -> [ok |-> TRUE, text |-> Text(<< "{", "}" >>)]
      [] OTHER -> [ok |-> FALSE, text |-> << >>]

\* message_data.get("content", {})
get_content(frame) == IF frame.content = NoContent THEN JEmptyObj ELSE frame.content

Contents ==
    { NoContent, JObjX(1),
      JStr(SnapshotLimit - 2),      \* serialized: exactly 4000 characters
      JStr(SnapshotLimit - 1) }     \* serialized: 4001 characters

\* ------------------------------------------------------------------ frames
\* json: what json.loads makes of the frame's text ("invalid": it raises).
\* type, message: the values under these keys, Absent when the key is missing.

Absent == "<absent>"

Frame(j, t, m, c) == [json |-> j, type |-> t, message |-> m, content |-> c]

UserMessages == { "hello" }

Frames ==
    { Frame("invalid", Absent, Absent, NoContent),
      Frame("array", Absent, Absent, NoContent),
      Frame("object", Absent, Absent, NoContent),
      Frame("object", "ping", Absent, NoContent),
      Frame("object", "chat", Absent, NoContent) }
    \cup { Frame("object", "chat", m, NoContent) : m \in UserMessages }
    \cup { Frame("object", "editor_state", Absent, c) : c \in Contents }

\* Lines 241-244: the exception the decoding and the key lookups raise for the
\* frame, or None.
decode_error(frame) ==
    IF frame.json = "invalid" THEN "JSONDecodeError"
    ELSE IF frame.json # "object" THEN "TypeError"
    ELSE IF frame.type = Absent THEN "KeyError"
    ELSE IF frame.type = "chat" /\ frame.message = Absent THEN "KeyError"
    ELSE None

\* ------------------------------------------------------- the tool gateway

\* AgentDeps(uid=settings.beefree_uid, websocket=websocket), line 263.
\* websocket is "ws" for the connection's socket and None for no socket.
AgentDeps(uid, websocket) == [uid |-> uid, websocket |-> websocket]

ToolNames == { "beefree_add_image" }

\* Tool arguments as the model writes them: the second carries an
\* identity-like field of its own.
ToolArgs ==
    { ("src" :> "https://placehold.co/600x300"),
      ("src" :> "https://placehold.co/600x300") @@ ("x-bee-uid" :> "attacker") }

\* What call_tool does: it returns the remote result, or raises an Exception
\* (a transport error, a timeout, an error the remote service reports).
RemoteOutcomes ==
    { [ok |-> TRUE, value |-> "image added", exc |-> None],
      [ok |-> FALSE, value |-> None, exc |-> "ReadTimeout"] }

\* A tool result: the remote value as it came, or a dict {error, tool}.
RemoteResult(value) == [value |-> value, error |-> None, tool |-> None]
ErrorPayload(msg, name) == [value |-> None, error |-> msg, tool |-> name]

NoCall ==
    [name |-> None, args |-> << >>, metadata |-> << >>, forwarded |-> FALSE,
     remote |-> [ok |-> FALSE, value |-> None, exc |-> None],
     raised |-> None, result |-> ErrorPayload(None, None)]

\* C2 mutant: the arguments' own x-bee-uid, when there is one, overrides deps.uid.
process_tool_call_args_identity(deps, name, tool_args, remote) ==
    [name |-> name, args |-> tool_args,
     metadata |-> [k \in DOMAIN tool_args \cap {"x-bee-uid"} |-> tool_args[k]]
                  @@ ("x-bee-uid" :> deps.uid),
     forwarded |-> TRUE, remote |-> remote, raised |-> None,
     result |-> IF remote.ok THEN RemoteResult(remote.value)
                ELSE ErrorPayload(remote.exc, name)]

\* C3 mutant: no try/except around call_tool.
process_tool_call_no_except(deps, name, tool_args, remote) ==
    [name |-> name, args |-> tool_args,
     metadata |-> ("x-bee-uid" :> deps.uid),
     forwarded |-> TRUE, remote |-> remote,
     raised |-> IF remote.ok THEN None ELSE remote.exc,
     result |-> IF remote.ok THEN RemoteResult(remote.value)
                ELSE ErrorPayload(None, None)]

\* Lines 31-48.  The record tells what the call did: the call it forwarded to
\* call_tool (name, args, metadata), the exception it let escape (raised) and
\* the value it returned (result).  Every call is forwarded: the function
\* keeps no count and knows no ceiling.
process_tool_call(deps, name, tool_args, remote) ==
    [name |-> name, args |-> tool_args,
     metadata |-> ("x-bee-uid" :> deps.uid),
     forwarded |-> TRUE, remote |-> remote, raised |-> None,
     result |-> IF remote.ok THEN RemoteResult(remote.value)
                ELSE ErrorPayload(remote.exc, name)]

\* --------------------------------------------------------------- the events

Event(type, text, ok) == [type |-> type, text |-> text, ok |-> ok]

\* What send_text raises once the client is gone: WebSocketDisconnect or
\* another Exception, as the installed server stack has it.
SendFailures == { "WebSocketDisconnect", "RuntimeError" }

ProgressMessages == { "Adding the hero section" }

\* C12 mutant: the send_text coroutine is made but not awaited, so nothing is
\* written when the tool is called.
send_progress_update_no_await(deps, message, chan, failure) ==
    IF deps.websocket # None
    THEN [writes |-> << >>,
          ret |-> << "Progress update sent: ", message >>,
          raised |-> None]
    ELSE [writes |-> << >>,
          ret |-> << "No WebSocket connection available", "" >>,
          raised |-> None]

\* C16 mutant: no try/except around the write.
send_progress_update_no_except(deps, message, chan, failure) ==
    IF deps.websocket # None
    THEN IF chan = "open"
         THEN [writes |-> << Event("progress", message, TRUE) >>,
               ret |-> << "Progress update sent: ", message >>,
               raised |-> None]
         ELSE [writes |-> << Event("progress", message, FALSE) >>,
               ret |-> << None, "" >>,
               raised |-> failure]
    ELSE [writes |-> << >>,
          ret |-> << "No WebSocket connection available", "" >>,
          raised |-> None]

\* Lines 63-85.  chan is the channel's state and failure the exception a write
\* to a gone client raises.  writes: the events it tried to write; ret: the
\* string it returns; raised: the exception it lets escape.
send_progress_update(deps, message, chan, failure) ==
    IF deps.websocket # None
    THEN IF chan = "open"
         THEN [writes |-> << Event("progress", message, TRUE) >>,
               ret |-> << "Progress update sent: ", message >>,
               raised |-> None]
         ELSE [writes |-> << Event("progress", message, FALSE) >>,
               ret |-> << "Failed to send progress update: ", failure >>,
               raised |-> None]
    ELSE [writes |-> << >>,
          ret |-> << "No WebSocket connection available", "" >>,
          raised |-> None]

\* ------------------------------------------------------------ the agent run

Outputs == { "", "Added the hero section." }

ModelRequest(text) == [kind |-> "request", text |-> text]
ModelResponse(text) == [kind |-> "response", text |-> text]

\* The messages one run adds to the log: the user's prompt first, the model's
\* final response last (the tool exchanges between them are left out).
new_messages(prompt, output) == << ModelRequest(prompt), ModelResponse(output) >>

\* The result of agent.run, lines 261-267: all_messages() is the history the
\* run was given followed by the run's own messages.
AgentRunResult(history, prompt, output) ==
    [output |-> output,
     new_messages |-> new_messages(prompt, output),
     all_messages |-> history \o new_messages(prompt, output)]

NoResult == [output |-> None, new_messages |-> << >>, all_messages |-> << >>]

\* C11 mutant: an empty answer is streamed as it is.
output_text_no_fallback(res) == res.output

\* Line 269: result.output or the canned notice (whose leading check mark is
\* left out here).
output_text(res) ==
    IF res.output = "" THEN "Done. Check the editor for updates." ELSE res.output

\* C5 mutant: the history keeps the last run's messages only.
committed_history_new_only(res) == res.new_messages

\* Line 273: message_history = result.all_messages()
committed_history(res) == res.all_messages

\* The stored snapshot: Python's None, or a text.
NoSnapshot == [none |-> TRUE, text |-> << >>]
Snapshot(text) == [none |-> FALSE, text |-> text]

\* C10 mutant: the slice is one character too long.
stored_snapshot_off_by_one(content) ==
    LET d == json_dumps(content)
    IN  IF d.ok THEN Snapshot(StrTake(d.text, SnapshotLimit + 1)) ELSE NoSnapshot

\* Lines 292-295: the serialization's first 4000 characters; None when
\* json.dumps raises TypeError.
stored_snapshot(content) ==
    LET d == json_dumps(content)
    IN  IF d.ok THEN Snapshot(StrTake(d.text, SnapshotLimit)) ELSE NoSnapshot

\* "Current editor state (truncated JSON):\n", line 258
InstructionsPrefix ==
    Text(<<
       "C", "u", "r", "r", "e", "n", "t", " ", "e", "d", "i", "t", "o",
       "r", " ", "s", "t", "a", "t", "e", " ", "(", "t", "r", "u", "n",
       "c", "a", "t", "e", "d", " ", "J", "S", "O", "N", ")", ":", "\n" >>)

\* Lines 255-260: None unless the snapshot is truthy.
extra_instructions(snapshot) ==
    IF snapshot.none \/ snapshot.text = << >>
    THEN [none |-> TRUE, text |-> << >>]
    ELSE [none |-> FALSE,
          text |-> StrCat(InstructionsPrefix, snapshot.text)]

\* ---------------------------------------------------------------- the state

VARIABLES
    pc,                     \* where websocket_endpoint stands
    channel,                \* "open", or "gone" once the client has left
    frames_left,            \* frames the client may still send
    message_history,        \* line 223
    editor_state_snapshot,  \* line 224
    user_message,           \* line 244
    result,                 \* line 261, NoResult outside a turn's tail
    exc,                    \* the e of line 284
    instructions,           \* the instructions the current run was given
    turn_events,            \* the writes of the current turn, in order
    pre_history,            \* message_history when the current turn began
    tool_calls,             \* process_tool_call invocations of the session
    turn_calls,             \* those of the current run
    turn_progress,          \* send_progress_update invocations of the run
    last_call,              \* what the last process_tool_call did
    progress_ret,           \* what the last send_progress_update returned
    last_frame,             \* the last frame received
    detected,               \* a channel operation has raised WebSocketDisconnect
    close_attempted,        \* websocket.close() was called (line 301)
    deps,                   \* the AgentDeps of line 263
    last_editor,            \* the last editor_state frame received
    prev_outcome,           \* how the turn before the current one ended
    loop_exit               \* the exception that left the loop (lines 297-299)

vars ==
    << pc, channel, frames_left, message_history, editor_state_snapshot,
       user_message, result, exc, instructions, turn_events, pre_history,
       tool_calls, turn_calls, turn_progress, last_call, progress_ret,
       last_frame, detected, close_attempted, deps, last_editor,
       prev_outcome, loop_exit >>

session == << message_history, editor_state_snapshot, deps >>
turn == << user_message, result, exc, instructions, turn_events, pre_history,
           turn_calls, turn_progress >>
tools == << tool_calls, last_call, progress_ret >>

NoFrame == Frame(None, Absent, Absent, NoContent)
NoInstructions == [none |-> TRUE, text |-> << >>]

\* The terminal event the client got for the current turn, None while the
\* turn has none.
turn_outcome ==
    IF turn_events # << >> /\ turn_events[Len(turn_events)].ok
       /\ turn_events[Len(turn_events)].type \in { "complete", "error" }
    THEN turn_events[Len(turn_events)].type
    ELSE None

\* Lines 221-224, the agent being built (line 201; line 226 is never true),
\* for a client that sends at most frames frames and runs given the deps d.
InitDeps(frames, d) ==
    /\ pc = "receive"
    /\ channel = "open"
    /\ frames_left = frames
    /\ message_history = << >>
    /\ editor_state_snapshot = NoSnapshot
    /\ user_message = None
    /\ result = NoResult
    /\ exc = None
    /\ instructions = NoInstructions
    /\ turn_events = << >>
    /\ pre_history = << >>
    /\ tool_calls = 0
    /\ turn_calls = 0
    /\ turn_progress = 0
    /\ last_call = NoCall
    /\ progress_ret = << None, "" >>
    /\ last_frame = NoFrame
    /\ detected = FALSE
    /\ close_attempted = FALSE
    /\ deps = d
    /\ last_editor = NoFrame
    /\ prev_outcome = None
    /\ loop_exit = None

\* Line 263: every run of the connection is given the connection's websocket.
InitWith(frames) == InitDeps(frames, AgentDeps(beefree_uid, "ws"))

Init == InitWith(MaxFrames)

\* ------------------------------------------------------------- the channel

\* The client goes away; it may do so at any moment.
ClientDisconnect ==
    /\ pc # "closed"
    /\ channel = "open"
    /\ channel' = "gone"
    /\ UNCHANGED << pc, frames_left, session, turn, tools, last_frame, last_editor, prev_outcome,
                    detected, close_attempted, loop_exit >>

\* A send_text the client receives.
Delivered(type, text) ==
    /\ channel = "open"
    /\ turn_events' = Append(turn_events, Event(type, text, TRUE))
    /\ UNCHANGED detected

\* A send_text that raises failure.
Failed(type, text, failure) ==
    /\ channel = "gone"
    /\ turn_events' = Append(turn_events, Event(type, text, FALSE))
    /\ detected' = (detected \/ failure = "WebSocketDisconnect")

\* C19 mutant: the outer handler only logs.
LeaveLoop_no_close(failure) ==
    /\ pc' = "closed"
    /\ close_attempted' = close_attempted
    /\ loop_exit' = failure

\* Lines 297-301: what the outer handlers do with an exception that leaves
\* the loop.
LeaveLoop(failure) ==
    /\ pc' = "closed"
    /\ close_attempted' = (close_attempted \/ failure # "WebSocketDisconnect")
    /\ loop_exit' = failure

\* ------------------------------------------------------ receiving a frame

\* Line 240 on a channel the client has left: WebSocketDisconnect.
ReceiveDisconnect ==
    /\ pc = "receive"
    /\ channel = "gone"
    /\ detected' = TRUE
    /\ LeaveLoop("WebSocketDisconnect")
    /\ UNCHANGED << channel, frames_left, session, turn, tools, last_frame, last_editor, prev_outcome >>

\* C14 mutant: frames are taken off the channel while a run is in flight.
Received_during_run(f) ==
    /\ pc \in { "receive", "agent_run" }
    /\ channel = "open"
    /\ frames_left > 0
    /\ frames_left' = frames_left - 1
    /\ last_frame' = f
    /\ last_editor' = IF decode_error(f) = None /\ f.type = "editor_state"
                      THEN f ELSE last_editor
    /\ prev_outcome' = IF decode_error(f) = None /\ f.type = "chat"
                       THEN turn_outcome ELSE prev_outcome

\* Line 240: the next frame of the channel is handed to the handler.
Received(f) ==
    /\ pc = "receive"
    /\ channel = "open"
    /\ frames_left > 0
    /\ frames_left' = frames_left - 1
    /\ last_frame' = f
    /\ last_editor' = IF decode_error(f) = None /\ f.type = "editor_state"
                      THEN f ELSE last_editor
    /\ prev_outcome' = IF decode_error(f) = None /\ f.type = "chat"
                       THEN turn_outcome ELSE prev_outcome

\* Lines 241-244 raising: the text is no JSON, the value has no key "type",
\* or a chat frame has no key "message".
ReceiveMalformed(f) ==
    /\ Received(f)
    /\ decode_error(f) # None
    /\ LeaveLoop(decode_error(f))
    /\ UNCHANGED << channel, session, turn, tools, detected >>

\* Lines 243-245: a chat frame starts a turn.
ReceiveChat(f) ==
    /\ Received(f)
    /\ decode_error(f) = None
    /\ f.type = "chat"
    /\ user_message' = f.message
    /\ pc' = "send_start"
    /\ turn_events' = << >>
    /\ pre_history' = message_history
    /\ turn_calls' = 0
    /\ turn_progress' = 0
    /\ result' = NoResult
    /\ exc' = None
    /\ instructions' = NoInstructions
    /\ UNCHANGED << channel, session, tools, detected, close_attempted, loop_exit >>

\* C15 mutant: a snapshot, once stored, is kept.
ReceiveEditorState_keep_first(f) ==
    /\ Received(f)
    /\ decode_error(f) = None
    /\ f.type = "editor_state"
    /\ editor_state_snapshot' = IF editor_state_snapshot.none
                                THEN stored_snapshot(get_content(f))
                                ELSE editor_state_snapshot
    /\ UNCHANGED << pc, channel, message_history, deps, turn, tools, detected,
                    close_attempted, loop_exit >>

\* C18 mutant: the frame is acknowledged with an event.
ReceiveEditorState_ack(f) ==
    /\ Received(f)
    /\ decode_error(f) = None
    /\ f.type = "editor_state"
    /\ editor_state_snapshot' = stored_snapshot(get_content(f))
    /\ turn_events' = Append(turn_events, Event("ack", "editor_state", TRUE))
    /\ UNCHANGED << pc, channel, message_history, deps, user_message, result,
                    exc, instructions, pre_history, turn_calls, turn_progress,
                    tools, detected, close_attempted, loop_exit >>

\* Lines 290-295.
ReceiveEditorState(f) ==
    /\ Received(f)
    /\ decode_error(f) = None
    /\ f.type = "editor_state"
    /\ editor_state_snapshot' = stored_snapshot(get_content(f))
    /\ UNCHANGED << pc, channel, message_history, deps, turn, tools, detected,
                    close_attempted, loop_exit >>

\* C17 mutant: a type the handler does not know is an error.
ReceiveOther_fatal(f) ==
    /\ Received(f)
    /\ decode_error(f) = None
    /\ f.type \notin { "chat", "editor_state" }
    /\ LeaveLoop("ValueError")
    /\ UNCHANGED << channel, session, turn, tools, detected >>

\* Neither branch of lines 243 and 290 is taken.
ReceiveOther(f) ==
    /\ Received(f)
    /\ decode_error(f) = None
    /\ f.type \notin { "chat", "editor_state" }
    /\ UNCHANGED << pc, channel, session, turn, tools, detected, close_attempted, loop_exit >>

\* ---------------------------------------------------------------- the turn

\* Lines 248-252: the start event, written outside the inner try.
SendStart ==
    /\ pc = "send_start"
    /\ \/ /\ Delivered("start", "Processing your request...")
          /\ instructions' = extra_instructions(editor_state_snapshot)
          /\ pc' = "agent_run"
          /\ UNCHANGED << close_attempted, loop_exit >>
       \/ \E failure \in SendFailures :
             /\ Failed("start", "Processing your request...", failure)
             /\ LeaveLoop(failure)
             /\ UNCHANGED instructions
    /\ UNCHANGED << channel, frames_left, session, user_message, result, exc,
                    pre_history, turn_calls, turn_progress, tools, last_frame, last_editor, prev_outcome >>

RunStep ==
    /\ pc = "agent_run"
    /\ UNCHANGED << channel, frames_left, session, user_message, instructions,
                    pre_history, last_frame, last_editor, prev_outcome, close_attempted, loop_exit >>

\* The model gives its final answer: agent.run returns.
ModelFinal(output) ==
    /\ RunStep
    /\ result' = AgentRunResult(message_history, user_message, output)
    /\ pc' = "send_stream"
    /\ UNCHANGED << exc, turn_events, turn_calls, turn_progress, tools, detected >>

\* The model backend fails: agent.run raises.
ModelRaises ==
    /\ RunStep
    /\ exc' = "ModelHTTPError"
    /\ pc' = "send_error"
    /\ UNCHANGED << result, turn_events, turn_calls, turn_progress, tools, detected >>

\* The model asks for a remote tool: the runtime calls process_tool_call and
\* hands its result back to the model; an exception it lets escape ends
\* agent.run.  The counters stop at their caps.
ModelToolCall(name, tool_args, remote) ==
    LET call == process_tool_call(deps, name, tool_args, remote)
    IN  /\ RunStep
        /\ last_call' = call
        /\ tool_calls' = Min(tool_calls + 1, ToolCallCeiling + 1)
        /\ turn_calls' = Min(turn_calls + 1, MaxTurnCalls)
        /\ IF call.raised = None
           THEN UNCHANGED << pc, exc >>
           ELSE pc' = "send_error" /\ exc' = call.raised
        /\ UNCHANGED << result, turn_events, turn_progress, progress_ret, detected >>

\* The runtime calls send_progress_update for the model; an exception it lets
\* escape ends agent.run.
NotifierCall(message, failure) ==
    LET r == send_progress_update(deps, message, channel, failure)
    IN  /\ RunStep
        /\ turn_progress' = turn_progress + 1
        /\ turn_events' = turn_events \o r.writes
        /\ progress_ret' = r.ret
        /\ detected' = (detected \/ (channel = "gone" /\ r.writes # << >>
                                     /\ failure = "WebSocketDisconnect"))
        /\ IF r.raised = None
           THEN UNCHANGED << pc, exc >>
           ELSE pc' = "send_error" /\ exc' = r.raised
        /\ UNCHANGED << result, turn_calls, tool_calls, last_call >>

\* The model asks for send_progress_update, at most MaxProgress times a run.
ModelProgress(message, failure) ==
    /\ turn_progress < MaxProgress
    /\ NotifierCall(message, failure)

\* Lines 269-273: the stream event, then the history is replaced.
SendStream ==
    /\ pc = "send_stream"
    /\ \/ /\ Delivered("stream", output_text(result))
          /\ message_history' = committed_history(result)
          /\ pc' = "send_complete"
          /\ UNCHANGED exc
       \/ \E failure \in SendFailures :
             /\ Failed("stream", output_text(result), failure)
             /\ exc' = failure
             /\ pc' = "send_error"
             /\ UNCHANGED message_history
    /\ UNCHANGED << channel, frames_left, editor_state_snapshot, deps, user_message,
                    result, instructions, pre_history, turn_calls, turn_progress,
                    tools, last_frame, last_editor, prev_outcome, close_attempted, loop_exit >>

\* C20 mutant: a statement after the complete event raises inside the try.
SendComplete_then_raises ==
    /\ pc = "send_complete"
    /\ \/ /\ Delivered("complete", "Request completed successfully")
          /\ exc' = "RuntimeError"
          /\ pc' = "send_error"
       \/ \E failure \in SendFailures :
             /\ Failed("complete", "Request completed successfully", failure)
             /\ exc' = failure
             /\ pc' = "send_error"
    /\ UNCHANGED << channel, frames_left, session, user_message, result,
                    instructions, pre_history, turn_calls, turn_progress, tools,
                    last_frame, last_editor, prev_outcome, close_attempted, loop_exit >>

\* Lines 275-282.
SendComplete ==
    /\ pc = "send_complete"
    /\ \/ /\ Delivered("complete", "Request completed successfully")
          /\ pc' = "receive"
          /\ UNCHANGED exc
       \/ \E failure \in SendFailures :
             /\ Failed("complete", "Request completed successfully", failure)
             /\ exc' = failure
             /\ pc' = "send_error"
    /\ UNCHANGED << channel, frames_left, session, user_message, result,
                    instructions, pre_history, turn_calls, turn_progress, tools,
                    last_frame, last_editor, prev_outcome, close_attempted, loop_exit >>

\* C13 mutant: the inner handler raises again after the error event.
SendError_reraise ==
    /\ pc = "send_error"
    /\ \/ /\ Delivered("error", << "Error: ", exc >>)
          /\ LeaveLoop(exc)
       \/ \E failure \in SendFailures :
             /\ Failed("error", << "Error: ", exc >>, failure)
             /\ LeaveLoop(failure)
    /\ UNCHANGED << channel, frames_left, session, user_message, result, exc,
                    instructions, pre_history, turn_calls, turn_progress, tools,
                    last_frame, last_editor, prev_outcome >>

\* Lines 284-288: the inner handler writes the error event; a failure of that
\* write leaves the loop.
SendError ==
    /\ pc = "send_error"
    /\ \/ /\ Delivered("error", << "Error: ", exc >>)
          /\ pc' = "receive"
          /\ UNCHANGED << close_attempted, loop_exit >>
       \/ \E failure \in SendFailures :
             /\ Failed("error", << "Error: ", exc >>, failure)
             /\ LeaveLoop(failure)
    /\ UNCHANGED << channel, frames_left, session, user_message, result, exc,
                    instructions, pre_history, turn_calls, turn_progress, tools,
                    last_frame, last_editor, prev_outcome >>

\* ------------------------------------------------------- the specifications

Receive ==
    \E f \in Frames :
        \/ ReceiveMalformed(f)
        \/ ReceiveChat(f)
        \/ ReceiveEditorState(f)
        \/ ReceiveOther(f)

ModelSteps ==
    \/ \E output \in Outputs : ModelFinal(output)
    \/ ModelRaises
    \/ \E message \in ProgressMessages, failure \in SendFailures :
          ModelProgress(message, failure)

AnyToolCall ==
    \E name \in ToolNames, tool_args \in ToolArgs, remote \in RemoteOutcomes :
        ModelToolCall(name, tool_args, remote)

\* A run of Spec asks for at most MaxTurnCalls remote tools.
BoundedToolCall == turn_calls < MaxTurnCalls /\ AnyToolCall

HandlerSteps == SendStart \/ SendStream \/ SendComplete \/ SendError

Next ==
    \/ ClientDisconnect
    \/ ReceiveDisconnect
    \/ Receive
    \/ HandlerSteps
    \/ ModelSteps
    \/ BoundedToolCall

Spec == Init /\ [][Next]_vars

\* The same connection with one frame and no bound on the remote tools a run
\* asks for: usage_limits=UsageLimits(request_limit=None), line 266, takes the
\* runtime's own request limit away, and process_tool_call sets none.
InitLoop == InitWith(1)

NextLoop ==
    \/ ClientDisconnect
    \/ ReceiveDisconnect
    \/ Receive
    \/ HandlerSteps
    \/ ModelSteps
    \/ AnyToolCall

\* The connection's task is always scheduled again, and the model backend and
\* the remote tool service always answer (or time out): a step of the task
\* that stays possible is eventually taken.  What the model answers is left
\* to the model.
TaskStep == HandlerSteps \/ ModelSteps \/ AnyToolCall

SpecLoop == InitLoop /\ [][NextLoop]_vars /\ WF_vars(TaskStep)

\* One frame, and runs that ask for up to MaxTurnProgress progress updates
\* with different messages.  send_progress_update is also tried with deps
\* that hold no websocket, as when it is called outside a connection.
MaxTurnProgress == 2

TurnProgressMessages == { "Adding the hero section", "Checking the template" }

InitTurn == \E ws \in { "ws", None } : InitDeps(1, AgentDeps(beefree_uid, ws))

ModelEnds == (\E output \in Outputs : ModelFinal(output)) \/ ModelRaises

TurnProgress ==
    /\ turn_progress < MaxTurnProgress
    /\ \E message \in TurnProgressMessages, failure \in SendFailures :
           NotifierCall(message, failure)

NextTurn ==
    \/ ClientDisconnect
    \/ ReceiveDisconnect
    \/ Receive
    \/ HandlerSteps
    \/ ModelEnds
    \/ TurnProgress
    \/ BoundedToolCall

SpecTurn == InitTurn /\ [][NextTurn]_vars

\* ---------------------------------------------------------------- helpers

Last(s) == s[Len(s)]

SeqPrefix(s, t) == Len(s) <= Len(t) /\ SubSeq(t, 1, Len(s)) = s

\* The current turn's last write is an event of this type.
LastWrite(type) == turn_events # << >> /\ Last(turn_events).type = type

\* This step tries to write an event of this type.
Writes(type) ==
    /\ turn_events' # turn_events
    /\ turn_events' # << >>
    /\ Last(turn_events').type = type

\* ------------------------------------------------------------------ claims

\* C1: once the session's count of tool invocations exceeds the ceiling, the
\* call is answered with {error: "tool_call_limit_reached", tool: name} and is
\* not forwarded to the remote service.
C1_CeilingRejects ==
    tool_calls > ToolCallCeiling =>
        /\ ~last_call.forwarded
        /\ last_call.result = ErrorPayload("tool_call_limit_reached", last_call.name)

\* C2: every call forwarded to the remote service carries exactly the
\* identity metadata x-bee-uid = the session's uid, whatever the arguments
\* hold, and the arguments are those the model wrote.
C2_IdentityIsSessionUid ==
    last_call.forwarded =>
        /\ DOMAIN last_call.metadata = { "x-bee-uid" }
        /\ last_call.metadata["x-bee-uid"] = beefree_uid
        /\ last_call.args \in ToolArgs

\* C2 witness: a forwarded call whose arguments name another identity.
C2_Witness ==
    /\ last_call.forwarded
    /\ "x-bee-uid" \in DOMAIN last_call.args
    /\ last_call.args["x-bee-uid"] # beefree_uid

\* C3: process_tool_call lets no exception escape: a failed remote call
\* returns {error: <message>, tool: name}, a successful one returns the remote
\* result unchanged, and the run goes on after either.
C3_GatewayNeverRaises ==
    /\ [](last_call # NoCall =>
            /\ last_call.raised = None
            /\ last_call.remote.ok =>
                   last_call.result = RemoteResult(last_call.remote.value)
            /\ ~last_call.remote.ok =>
                   last_call.result = ErrorPayload(last_call.remote.exc, last_call.name))
    /\ [][(pc = "agent_run" /\ last_call' # last_call) => pc' = "agent_run"]_vars

\* C3 witness: a turn completed after a tool call of its run had failed.
C3_Witness ==
    /\ turn_calls > 0
    /\ ~last_call.remote.ok
    /\ last_call.result = ErrorPayload("ReadTimeout", "beefree_add_image")
    /\ LastWrite("complete")
    /\ Last(turn_events).ok

\* C4: a turn whose last write is the error event has left the history as it
\* was when the turn began.
C4_ErrorTurnNotCommitted ==
    LastWrite("error") => message_history = pre_history

\* C5: the history never shrinks (every step leaves the old history a prefix
\* of the new one), the stream step replaces it by the run's full message
\* log, and a completed turn has made it strictly longer than it was when the
\* turn began.
C5_HistoryExtends ==
    /\ [][SeqPrefix(message_history, message_history')]_vars
    /\ [][(pc = "send_stream" /\ pc' = "send_complete") =>
              message_history' = result.all_messages]_vars
    /\ []((LastWrite("complete") /\ Last(turn_events).ok) =>
              /\ SeqPrefix(pre_history, message_history)
              /\ Len(message_history) > Len(pre_history))

\* C5 witness: a second turn completed on top of a first one.
C5_Witness ==
    /\ LastWrite("complete")
    /\ Last(turn_events).ok
    /\ pre_history # << >>
    /\ Len(message_history) > Len(pre_history)

\* C6: every run that has started comes to an end: the handler is back at
\* receive_text or the connection is closed.
C6_EveryTurnEnds == (pc = "agent_run") ~> (pc \in { "receive", "closed" })

\* C7: once a channel operation has raised WebSocketDisconnect, no step
\* tries to write an error event.
C7_NoErrorAfterDisconnect == [][detected => ~Writes("error")]_vars

\* The frames C8 calls malformed: no JSON, no object, or no key "type".
Malformed(f) == f.json # "object" \/ f.type = Absent

\* C8: receiving a malformed frame leaves the handler at receive_text with
\* the channel not closed and history and snapshot as they were.
C8_MalformedIgnored ==
    [][(frames_left' < frames_left /\ Malformed(last_frame')) =>
          /\ pc' = "receive"
          /\ ~close_attempted'
          /\ message_history' = message_history
          /\ editor_state_snapshot' = editor_state_snapshot]_vars

\* C10: the stored snapshot never has more than 4000 characters, and after an
\* editor_state frame it is the prefix of the content's serialization that is
\* 4000 characters long, or the whole serialization if that is shorter.
C10_SnapshotTruncated ==
    /\ StrLen(editor_state_snapshot.text) <= SnapshotLimit
    /\ last_frame.type = "editor_state" =>
           LET full == json_dumps(get_content(last_frame)).text
           IN  /\ ~editor_state_snapshot.none
               /\ IsPrefix(editor_state_snapshot.text, full)
               /\ StrLen(editor_state_snapshot.text) = Min(StrLen(full), SnapshotLimit)

\* C10 witness: a serialization of 4001 characters was stored cut to 4000,
\* after one of 4000 characters had been stored whole.
C10_Witness ==
    /\ last_frame.type = "editor_state"
    /\ StrLen(json_dumps(get_content(last_frame)).text) = SnapshotLimit + 1
    /\ StrLen(editor_state_snapshot.text) = SnapshotLimit
    /\ editor_state_snapshot.text # json_dumps(get_content(last_frame)).text

StartEvent == Event("start", "Processing your request...", TRUE)
CompleteEvent == Event("complete", "Request completed successfully", TRUE)
NotProgress(e) == e.type # "progress"

\* C11: the start event is delivered before the run begins, and the events
\* of a turn that ends with complete are, progress events aside, start, one
\* stream event with the run's answer (the canned notice for an empty answer)
\* and complete, in this order.
C11_StartStreamComplete ==
    /\ pc = "agent_run" => (turn_events # << >> /\ turn_events[1] = StartEvent)
    /\ turn_outcome = "complete" =>
           SelectSeq(turn_events, NotProgress) =
               << StartEvent,
                  Event("stream",
                        IF result.output = ""
                        THEN "Done. Check the editor for updates."
                        ELSE result.output,
                        TRUE),
                  CompleteEvent >>

\* C11 witness: a turn with an empty answer has completed.
C11_Witness ==
    /\ turn_outcome = "complete"
    /\ result.output = ""
    /\ Len(turn_events) >= 3

\* C12: a call of the notifier with a websocket appends its one progress
\* event to the turn's writes at the moment of the call, so the progress
\* events lie in the order of the calls; and every progress event of a turn
\* comes after the turn's start event and before any stream, complete or
\* error event of the turn.
C12_ProgressInOrder ==
    /\ [][turn_progress' > turn_progress =>
            IF deps.websocket = None
            THEN turn_events' = turn_events
            ELSE /\ Len(turn_events') = Len(turn_events) + 1
                 /\ SeqPrefix(turn_events, turn_events')
                 /\ Last(turn_events').type = "progress"
                 /\ Last(turn_events').ok =>
                        progress_ret' = << "Progress update sent: ",
                                           Last(turn_events').text >>]_vars
    /\ [](\A i \in DOMAIN turn_events :
            turn_events[i].type = "progress" =>
               /\ i > 1
               /\ turn_events[1].type = "start"
               /\ \A j \in 1..(i - 1) :
                     turn_events[j].type \in { "start", "progress" })

\* C12 witness: two progress events with different messages were delivered,
\* then the stream and complete events.
C12_Witness ==
    /\ turn_outcome = "complete"
    /\ Len(turn_events) = 5
    /\ turn_events[2].type = "progress" /\ turn_events[2].ok
    /\ turn_events[3].type = "progress" /\ turn_events[3].ok
    /\ turn_events[2].text # turn_events[3].text
    /\ turn_events[4].type = "stream"

\* C16: a call of the notifier never ends the run.  Without a websocket in
\* the deps it writes nothing and returns "No WebSocket connection available";
\* when the write fails it returns a failure string and nothing is delivered;
\* when the write succeeds exactly one progress event with the message was
\* delivered and it returns the confirmation.
C16_NotifierNeverRaises ==
    [][turn_progress' > turn_progress =>
          /\ pc' = "agent_run"
          /\ exc' = exc
          /\ IF deps.websocket = None
             THEN /\ turn_events' = turn_events
                  /\ progress_ret' = << "No WebSocket connection available", "" >>
             ELSE IF channel = "gone"
             THEN /\ SelectSeq(turn_events', LAMBDA e : e.ok)
                        = SelectSeq(turn_events, LAMBDA e : e.ok)
                  /\ progress_ret'[1] = "Failed to send progress update: "
                  /\ progress_ret'[2] \in SendFailures
             ELSE /\ turn_events' =
                        Append(turn_events,
                               Event("progress", progress_ret'[2], TRUE))
                  /\ progress_ret'[1] = "Progress update sent: "
                  /\ progress_ret'[2] \in TurnProgressMessages]_vars

\* C16 witness: the notifier was called without a websocket and the run went
\* on to complete.
C16_Witness ==
    /\ deps.websocket = None
    /\ turn_progress > 0
    /\ progress_ret = << "No WebSocket connection available", "" >>
    /\ turn_outcome = "complete"

\* C13: when agent.run raises and the client is still there, the handler
\* writes one error event with the exception's text, leaves the history as it
\* was before the turn, does not close and waits for the next frame; a chat
\* frame that follows starts a turn from that same history.
C13_RunFailureRecoverable ==
    /\ [][(pc = "send_error" /\ exc = "ModelHTTPError" /\ channel = "open"
           /\ pc' # pc) =>
            /\ pc' = "receive"
            /\ channel' = "open"
            /\ turn_events' =
                  Append(turn_events,
                         Event("error", << "Error: ", "ModelHTTPError" >>, TRUE))
            /\ Len(SelectSeq(turn_events', LAMBDA e : e.type = "error")) = 1
            /\ message_history' = pre_history
            /\ ~close_attempted' /\ loop_exit' = None]_vars
    /\ [][(frames_left' < frames_left /\ turn_outcome = "error"
           /\ decode_error(last_frame') = None /\ last_frame'.type = "chat") =>
            /\ pc' = "send_start"
            /\ turn_events' = << >>
            /\ message_history' = pre_history
            /\ pre_history' = pre_history]_vars

\* C13 witness: a turn completed, the next one failed with an error event
\* and the one after it completed from the first turn's history.
C13_Witness ==
    /\ prev_outcome = "error"
    /\ turn_outcome = "complete"
    /\ pre_history # << >>
    /\ message_history = pre_history \o result.new_messages

C15_InstructionsFromLastSnapshot ==
    pc = "agent_run" =>
       IF last_editor = NoFrame
       THEN instructions = NoInstructions
       ELSE /\ ~instructions.none
            /\ instructions.text =
                  StrCat(InstructionsPrefix,
                         StrTake(json_dumps(get_content(last_editor)).text,
                                 SnapshotLimit))

\* C15 witness: the third frame is a chat frame whose run is given the
\* serialized {"x": 1} of the editor_state frame before it.
C15_Witness ==
    /\ pc = "agent_run"
    /\ frames_left = 0
    /\ last_editor.content = JObjX(1)
    /\ instructions.text =
          StrCat(InstructionsPrefix,
                 Text(<< "{", "\"", "x", "\"", ":", " ", "1", "}" >>))

\* C17: a frame that decodes, has a type and whose type is neither chat nor
\* editor_state writes no event, changes neither history nor snapshot, and
\* leaves the handler waiting for the next frame with the connection open.
C17_UnknownTypeIgnored ==
    [][(frames_left' < frames_left /\ decode_error(last_frame') = None
        /\ last_frame'.type \notin { "chat", "editor_state" }) =>
          /\ pc' = "receive"
          /\ loop_exit' = None /\ ~close_attempted'
          /\ UNCHANGED << turn_events, message_history, editor_state_snapshot,
                          channel, result, tool_calls >>]_vars

\* C17 witness: a frame of an unknown type was taken after a completed turn
\* and an editor_state frame, and the handler waits for the next frame.
C17_Witness ==
    /\ last_frame.type \notin { "chat", "editor_state", Absent }
    /\ decode_error(last_frame) = None
    /\ pc = "receive"
    /\ turn_outcome = "complete"
    /\ ~editor_state_snapshot.none

\* C18: an editor_state frame replaces the snapshot and does nothing else:
\* no event is written, no run is started, the history is unchanged.
C18_EditorStateOnlySnapshot ==
    [][(frames_left' < frames_left /\ decode_error(last_frame') = None
        /\ last_frame'.type = "editor_state") =>
          /\ editor_state_snapshot' = stored_snapshot(get_content(last_frame'))
          /\ pc' = "receive"
          /\ UNCHANGED << turn_events, message_history, result, instructions,
                          tool_calls, turn_calls, turn_progress, channel >>]_vars

\* C18 witness: an editor_state frame was taken after a completed turn whose
\* events and history stand as the turn left them.
C18_Witness ==
    /\ last_frame.type = "editor_state"
    /\ decode_error(last_frame) = None
    /\ pc = "receive"
    /\ turn_outcome = "complete"
    /\ editor_state_snapshot = stored_snapshot(get_content(last_frame))
    /\ message_history = pre_history \o result.new_messages

\* C19: the handler leaves its loop only with an exception, and then for
\* good: it takes no further frame, starts no turn and writes nothing; it
\* has called close exactly when the exception was not WebSocketDisconnect.
\* Once a channel operation has raised WebSocketDisconnect no further frame
\* is taken.
C19_ClosedIsAbsorbing ==
    /\ [](pc = "closed" =>
            /\ loop_exit # None
            /\ close_attempted <=> loop_exit # "WebSocketDisconnect")
    /\ [](pc # "closed" => (loop_exit = None /\ ~close_attempted))
    /\ [][pc = "closed" =>
            /\ pc' = "closed"
            /\ UNCHANGED << frames_left, last_frame, turn_events,
                            message_history, editor_state_snapshot, result,
                            loop_exit, close_attempted >>]_vars
    /\ [][detected => frames_left' = frames_left]_vars

\* C19 witness: after a completed turn a frame that cannot be decoded ended
\* the loop, and close was called.
C19_Witness ==
    /\ pc = "closed"
    /\ loop_exit \notin { None, "WebSocketDisconnect", "RuntimeError" }
    /\ close_attempted
    /\ turn_outcome = "complete"
    /\ frames_left > 0

\* C20: the first event written for a turn is start; at most one of complete
\* and error is delivered for it; and a delivered complete comes after the
\* turn's delivered stream event, with the history holding the run's result.
C20_OneTerminalEvent ==
    /\ turn_events # << >> => turn_events[1].type = "start"
    /\ Len(SelectSeq(turn_events,
                     LAMBDA e : e.ok /\ e.type \in { "complete", "error" })) <= 1
    /\ \A i \in DOMAIN turn_events :
          (turn_events[i].type = "complete" /\ turn_events[i].ok) =>
             /\ \E j \in 1..(i - 1) :
                   turn_events[j].type = "stream" /\ turn_events[j].ok
             /\ \A j \in 1..(i - 1) : turn_events[j].type # "error"
             /\ message_history = pre_history \o result.new_messages

\* C20 witness: a turn with a tool call and a progress update has delivered
\* start, progress, stream and complete.
C20_Witness ==
    /\ turn_outcome = "complete"
    /\ turn_calls > 0
    /\ Len(turn_events) = 4
    /\ turn_events[2].type = "progress"
    /\ \A i \in DOMAIN turn_events : turn_events[i].ok

====
